---- MODULE Spec2Model ----
(***************************************************************************)
(* Model of src/server/server_utils.py: the retention sweeper              *)
(* (_remove_old_repositories, _process_folder), its lifecycle (lifespan),  *)
(* the request logger (LoggingMiddleware.dispatch) and browser detection   *)
(* (is_browser).                                                           *)
(*                                                                         *)
(* Strings are sequences of one-character strings, so that Path.suffix,    *)
(* Path.stem, str.split, str.lower and the substring test are computed.    *)
(* All coroutines share one asyncio event loop: a coroutine runs from one  *)
(* suspension point to the next without interleaving.                      *)
(***************************************************************************)
EXTENDS Integers, Sequences, FiniteSets, TLC

(***************************************************************************)
(* Bounds of the model.                                                    *)
(***************************************************************************)
\* the clock runs over 0..MaxTime
MaxTime == 2
\* history.txt holds at most MaxHistory lines
MaxHistory == 2
\* at most MaxRequests requests are handled
MaxRequests == 2

\* server_config.DELETE_REPO_AFTER, in clock ticks
DELETE_REPO_AFTER == 1

\* names of the children of TMP_BASE_PATH
Folders == {"f1", "f2"}

(***************************************************************************)
(* File names.                                                             *)
(***************************************************************************)
AcmeWidgetsTxt == <<"a","c","m","e","-","w","i","d","g","e","t","s",".","t","x","t">>
AcmeWidgetsDir == <<"a","c","m","e","-","w","i","d","g","e","t","s">>
NotesTxt == <<"n","o","t","e","s",".","t","x","t">>
ABCTxt == <<"a","-","b","-","c",".","t","x","t">>
\* the marker suffix
TxtSuffix == <<".","t","x","t">>

\* the directory listings, in iteration order, each folder is created with:
\* f1 by an ingestion of acme/widgets, f2 by an ingestion of a/b-c
Layouts ==
  [f \in Folders |->
     IF f = "f1"
     THEN {<<AcmeWidgetsTxt, AcmeWidgetsDir>>, <<AcmeWidgetsDir>>}
     ELSE {<<NotesTxt, ABCTxt>>, <<ABCTxt>>}]

(***************************************************************************)
(* Python string and path functions used by _process_folder.               *)
(***************************************************************************)
\* the largest index of character c in s, 0 when absent (str.rfind, 1-based)
RFind(s, c) ==
  LET I == {i \in 1..Len(s) : s[i] = c}
  IN IF I = {} THEN 0 ELSE CHOOSE i \in I : \A j \in I : j <= i

\* the smallest index of character c in s, 0 when absent (str.find, 1-based)
Find(s, c) ==
  LET I == {i \in 1..Len(s) : s[i] = c}
  IN IF I = {} THEN 0 ELSE CHOOSE i \in I : \A j \in I : i <= j

\* pathlib: the final component has a suffix when its last dot is neither
\* its first nor its last character
HasSuffix(name) == LET i == RFind(name, ".") IN 1 < i /\ i < Len(name)

\* Path.suffix
suffix(name) ==
  IF HasSuffix(name) THEN SubSeq(name, RFind(name, "."), Len(name)) ELSE <<>>

\* Path.stem
stem(name) ==
  IF HasSuffix(name) THEN SubSeq(name, 1, RFind(name, ".") - 1) ELSE name

\* [f for f in folder.iterdir() if f.suffix == ".txt"]
RECURSIVE TxtFiles(_)
TxtFiles(files) ==
  IF files = <<>> THEN <<>>
  ELSE IF suffix(Head(files)) = TxtSuffix
       THEN <<Head(files)>> \o TxtFiles(Tail(files))
       ELSE TxtFiles(Tail(files))

\* "-" in filename
HasDash(filename) == Find(filename, "-") > 0

\* owner, repo = filename.split("-", 1); repo_url = f"{owner}/{repo}"
RepoUrl(filename) ==
  LET i == Find(filename, "-")
  IN SubSeq(filename, 1, i - 1) \o <<"/">> \o SubSeq(filename, i + 1, Len(filename))

(***************************************************************************)
(* Exceptions. CancelledError derives from BaseException, the others from  *)
(* Exception.                                                              *)
(***************************************************************************)
NoExc == "none"
\* isinstance(exc, Exception)
IsException(exc) == exc \in {"IndexError", "OSError", "DBError"}


\* a handler that catches OSError alone
LogUrlHandlerOSErrorOnly(exc) == exc = "OSError"

\* no handler at all
LogUrlHandlerNone(exc) == FALSE

\* except Exception (line 238), around listing, parsing and the history write
LogUrlHandler(exc) == IsException(exc)

\* no handler around rmtree
DeleteHandlerNone(exc) == FALSE

\* except Exception (line 244), around shutil.rmtree
DeleteHandler(exc) == IsException(exc)

\* a handler that catches ValueError alone
LoopHandlerValueErrorOnly(exc) == exc = "ValueError"

\* except BaseException, which catches the cancellation too
LoopHandlerBaseException(exc) == TRUE

\* except Exception (line 210), around one scan of the loop
LoopHandler(exc) == IsException(exc)

\* no handler around the database write
DbLogHandlerNone(exc) == FALSE

\* except Exception (line 145), around the database write of dispatch
DbLogHandler(exc) == IsException(exc)

\* except asyncio.CancelledError (line 176), around "await task"
LifespanHandler(exc) == exc = "CancelledError"

(***************************************************************************)
(* State.                                                                  *)
(***************************************************************************)
VARIABLES
  now,          \* time.time(), in ticks
  baseExists,   \* TMP_BASE_PATH.exists()
  dirs,         \* the children of TMP_BASE_PATH: present, st_ctime, listing
  history,      \* the lines of history.txt
  task,         \* where the coroutine _remove_old_repositories stands
  mustCancel,   \* task.cancel() was called and not yet delivered
  current_time, \* local of _remove_old_repositories
  todo,         \* what is left of the iteration over TMP_BASE_PATH.iterdir()
  life,         \* where lifespan stands
  api_logs,     \* the committed rows of api_logs
  req,          \* the request dispatch is handling
  nreq,         \* requests accepted so far
  scan,         \* observation: the sweeper's current or last loop iteration
  last,         \* observation: the last call of _process_folder
  pendingRetry, \* observation: folders whose last rmtree failed
  served        \* observation: the last request dispatch finished

vars ==
  <<now, baseExists, dirs, history, task, mustCancel, current_time, todo,
    life, api_logs, req, nreq, scan, last, pendingRetry, served>>

fsVars == <<baseExists, dirs, history>>
sweepVars == <<task, mustCancel, current_time, todo>>
httpVars == <<api_logs, req, nreq>>
obsSweep == <<scan, last, pendingRetry>>

Absent == [present |-> FALSE, ctime |-> 0, files |-> <<>>]

Present == {f \in Folders : dirs[f].present}

NullScan ==
  [status |-> "none", listed |-> {}, attempted |-> {}, skipped |-> {},
   retry |-> {}]

NullLast ==
  [folder |-> "none", files |-> <<>>, wrote |-> FALSE, exc1 |-> NoExc,
   rmAttempted |-> FALSE, rmFailed |-> FALSE, escaped |-> NoExc,
   reports |-> 0]

NoReq == [stage |-> "none"]

NoServed == [stage |-> "none"]

\* the sweeper coroutine holds the event loop between two suspension points
SweeperRunning == task \in {"top", "iter"}

\* the event loop can run another coroutine
LoopFree == ~SweeperRunning

(***************************************************************************)
(* _process_folder (lines 216-245).                                       *)
(***************************************************************************)
\* shutil.rmtree(folder): on success the folder is gone. It removes entries
\* one by one and raises at the first one it cannot remove: the k leading
\* entries are gone then, and where st_ctime is the time of the last
\* metadata change (touch) removing an entry sets it to t.
Rmtree(d, t, fail, k, touch) ==
  IF ~fail THEN Absent
  ELSE [present |-> TRUE,
        ctime |-> IF k > 0 /\ touch THEN t ELSE d.ctime,
        files |-> SubSeq(d.files, k + 1, Len(d.files))]

\* the run of _process_folder on a folder d at time t, with the faults the
\* filesystem answers with: listFail (folder.iterdir raises), histFail
\* (opening or writing history.txt raises), rmFail (rmtree raises)
ProcessFolderOutcome(d, t, listFail, histFail, rmFail, k, touch) ==
  LET txt_files == TxtFiles(d.files)
      exc1 == IF listFail THEN "OSError"
              ELSE IF txt_files = <<>> THEN "IndexError"
              ELSE IF HasDash(stem(txt_files[1])) /\ histFail THEN "OSError"
              ELSE NoExc
      wrote == exc1 = NoExc /\ HasDash(stem(txt_files[1]))
      line == IF wrote THEN RepoUrl(stem(txt_files[1])) ELSE <<>>
      through1 == exc1 = NoExc \/ LogUrlHandler(exc1)
      exc2 == IF through1 /\ rmFail THEN "OSError" ELSE NoExc
      through2 == exc2 = NoExc \/ DeleteHandler(exc2)
  IN [wrote |-> wrote,
      line |-> line,
      exc1 |-> exc1,
      rmAttempted |-> through1,
      rmFailed |-> through1 /\ rmFail,
      escaped |-> IF ~through1 THEN exc1 ELSE IF ~through2 THEN exc2 ELSE NoExc,
      reports |-> (IF exc1 # NoExc /\ through1 THEN 1 ELSE 0)
                  + (IF exc2 # NoExc /\ through2 THEN 1 ELSE 0),
      dir |-> IF through1 THEN Rmtree(d, t, rmFail, k, touch) ELSE d]


(***************************************************************************)
(* _remove_old_repositories (lines 180-213).                              *)
(***************************************************************************)
\* the comparison with < in place of <=
NotOldEnoughStrict(cur, ctime) == cur - ctime < DELETE_REPO_AFTER

\* line 205: the folder is skipped when it is not old enough
NotOldEnough(cur, ctime) == cur - ctime <= DELETE_REPO_AFTER

\* the orders TMP_BASE_PATH.iterdir() can yield the children in
Orders(S) ==
  {o \in [1..Cardinality(S) -> S] : \A i, j \in 1..Cardinality(S) : o[i] = o[j] => i = j}

\* an exception raised inside the try block of the loop (lines 196-211):
\* caught and reported, then the sleep of line 213; otherwise it ends the task
RaisedInScan(exc) ==
  IF LoopHandler(exc)
  THEN /\ task' = "sleep213"
       /\ scan' = [NullScan EXCEPT !.status = "aborted"]
  ELSE /\ task' = "failed"
       /\ scan' = [NullScan EXCEPT !.status = "crashed"]

\* the event loop runs the task for the first time, or the sleep of line 198
\* or 213 is over: the loop body starts at line 196
TaskResume ==
  /\ task \in {"pending", "sleep198", "sleep213"}
  /\ ~mustCancel
  /\ task' = "top"
  /\ scan' = [NullScan EXCEPT !.status = "running", !.retry = pendingRetry]
  /\ last' = NullLast
  /\ UNCHANGED <<now, fsVars, mustCancel, current_time, todo, life, httpVars,
                 pendingRetry, served>>

\* lines 197-199: no base directory yet
BaseMissing ==
  /\ task = "top"
  /\ ~baseExists
  /\ task' = "sleep198"
  /\ scan' = [NullScan EXCEPT !.status = "nobase"]
  /\ UNCHANGED <<now, fsVars, mustCancel, current_time, todo, life, httpVars,
                 last, pendingRetry, served>>

\* lines 201-203: current_time is read and the children are listed
BeginScan ==
  /\ task = "top"
  /\ baseExists
  /\ \E iterFail \in BOOLEAN :
       IF iterFail
       THEN /\ RaisedInScan("OSError")
            /\ UNCHANGED <<current_time, todo>>
       ELSE /\ current_time' = now
            /\ \E o \in Orders(Present) : todo' = o
            /\ task' = "iter"
            /\ scan' = [scan EXCEPT !.listed = Present]
  /\ UNCHANGED <<now, fsVars, mustCancel, life, httpVars, last, pendingRetry,
                 served>>

\* line 205: folder.stat() raises
StatFails ==
  /\ task = "iter"
  /\ todo # <<>>
  /\ RaisedInScan("OSError")
  /\ todo' = <<>>
  /\ current_time' = 0
  /\ last' = NullLast
  /\ UNCHANGED <<now, fsVars, mustCancel, life, httpVars, pendingRetry, served>>

\* lines 205-206: the folder is not old enough
SkipYoung ==
  /\ task = "iter"
  /\ todo # <<>>
  /\ LET f == Head(todo) IN
       /\ dirs[f].present
       /\ NotOldEnough(current_time, dirs[f].ctime)
       /\ scan' = [scan EXCEPT !.skipped = @ \cup {f}]
  /\ todo' = Tail(todo)
  /\ UNCHANGED <<now, fsVars, task, mustCancel, current_time, life, httpVars,
                 last, pendingRetry, served>>

\* line 208: await _process_folder(folder), which never suspends
ProcessFolder ==
  /\ task = "iter"
  /\ todo # <<>>
  /\ LET f == Head(todo) IN
       /\ dirs[f].present
       /\ ~NotOldEnough(current_time, dirs[f].ctime)
       /\ \E listFail, rmFail, touch \in BOOLEAN :
          \E histFail \in (IF Len(history) < MaxHistory THEN BOOLEAN ELSE {TRUE}) :
          \E k \in {i \in 0..1 : i <= Len(dirs[f].files)} :
            LET o == ProcessFolderOutcome(dirs[f], now, listFail, histFail,
                                          rmFail, k, touch)
            IN /\ history' = IF o.wrote THEN Append(history, o.line) ELSE history
               /\ dirs' = [dirs EXCEPT ![f] = o.dir]
               /\ last' = [folder |-> f, files |-> dirs[f].files,
                           wrote |-> o.wrote, exc1 |-> o.exc1,
                           rmAttempted |-> o.rmAttempted,
                           rmFailed |-> o.rmFailed, escaped |-> o.escaped,
                           reports |-> o.reports]
               /\ pendingRetry' = IF o.rmFailed THEN pendingRetry \cup {f}
                                  ELSE IF o.rmAttempted THEN pendingRetry \ {f}
                                  ELSE pendingRetry
               /\ IF o.escaped = NoExc
                  THEN /\ todo' = Tail(todo)
                       /\ task' = task
                       /\ current_time' = current_time
                       /\ scan' = [scan EXCEPT !.attempted = @ \cup {f}]
                  ELSE /\ todo' = <<>>
                       /\ current_time' = 0
                       /\ RaisedInScan(o.escaped)
  /\ UNCHANGED <<now, baseExists, mustCancel, life, httpVars, served>>

\* the iteration of line 203 is over: line 213
ScanEnd ==
  /\ task = "iter"
  /\ todo = <<>>
  /\ task' = "sleep213"
  /\ current_time' = 0
  /\ scan' = [NullScan EXCEPT !.status = "complete"]
  /\ last' = NullLast
  /\ UNCHANGED <<now, fsVars, mustCancel, todo, life, httpVars, pendingRetry,
                 served>>

\* the event loop throws CancelledError into the task where it is suspended:
\* before its first step, at line 198 (inside the try), or at line 213
DeliverCancel ==
  /\ task \in {"pending", "sleep198", "sleep213"}
  /\ mustCancel
  /\ mustCancel' = FALSE
  /\ task' = IF task = "sleep198" /\ LoopHandler("CancelledError")
             THEN "sleep213"
             ELSE "cancelled"
  /\ UNCHANGED <<now, fsVars, current_time, todo, life, httpVars, obsSweep,
                 served>>

\* a step of the loop of _remove_old_repositories
ScanStep ==
  \/ TaskResume
  \/ BaseMissing
  \/ BeginScan
  \/ StatFails
  \/ SkipYoung
  \/ ProcessFolder
  \/ ScanEnd

\* a step the event loop makes the task take
SweeperStep == ScanStep \/ DeliverCancel


(***************************************************************************)
(* is_browser (lines 268-286).                                            *)
(***************************************************************************)
LowerChars ==
  <<"a","b","c","d","e","f","g","h","i","j","k","l","m","n","o","p","q","r","s","t","u","v","w","x","y","z">>
UpperChars ==
  <<"A","B","C","D","E","F","G","H","I","J","K","L","M","N","O","P","Q","R","S","T","U","V","W","X","Y","Z">>

\* str.lower() on one character
LowerChar(c) ==
  IF \E i \in 1..26 : UpperChars[i] = c
  THEN LowerChars[CHOOSE i \in 1..26 : UpperChars[i] = c]
  ELSE c

\* str.lower()
lower(s) == [i \in 1..Len(s) |-> LowerChar(s[i])]

\* "sub in s" on strings
Contains(s, sub) ==
  \E i \in 1..(Len(s) - Len(sub) + 1) : SubSeq(s, i, i + Len(sub) - 1) = sub

\* line 283
browser_identifiers ==
  <<<<"m","o","z","i","l","l","a">>,
    <<"c","h","r","o","m","e">>,
    <<"s","a","f","a","r","i">>,
    <<"e","d","g","e">>,
    <<"f","i","r","e","f","o","x">>,
    <<"w","e","b","k","i","t">>,
    <<"o","p","e","r","a">>>>

\* request.headers.get("user-agent", "")
HeaderGet(h) == IF h.has THEN h.val ELSE <<>>

\* the test without .lower()
is_browser_case_sensitive(r) ==
  \E n \in 1..Len(browser_identifiers) :
    Contains(HeaderGet(r.ua), browser_identifiers[n])

is_browser(r) ==
  LET user_agent == lower(HeaderGet(r.ua))
  IN \E n \in 1..Len(browser_identifiers) : Contains(user_agent, browser_identifiers[n])

(***************************************************************************)
(* The route handler and the external ingestion library, which dispatch    *)
(* calls through call_next. Their code is not part of server_utils.py.     *)
(***************************************************************************)
\* the representation the route answers with
FormatDecision(browser, fmt, accept) ==
  IF browser THEN "text/html"
  ELSE IF fmt = "json" THEN "application/json"
  ELSE IF fmt = "text" THEN "text/plain; charset=utf-8"
  ELSE IF accept = "application/json" THEN "application/json"
  ELSE "text/plain; charset=utf-8"

\* the response of the route to request r
RouteResponse(r) ==
  [status_code |-> 200,
   media_type |-> FormatDecision(is_browser(r), r.fmt, r.accept)]

(***************************************************************************)
(* LoggingMiddleware.dispatch (lines 99-148).                             *)
(***************************************************************************)
\* the steps of the database write a fault can hit
DbFaults == {"none", "connect", "execute", "commit", "close"}

\* lines 129-141: the row of api_logs for request r answered at time t
LogRow(r, t) ==
  [level |-> "INFO",
   message |-> <<r.client, r.method, r.path, r.resp.status_code>>,
   method |-> r.method,
   path |-> r.path,
   status_code |-> r.resp.status_code,
   ip_address |-> r.client,
   processing_time |-> t - r.start_time]

\* lines 121-148 for request r, whose downstream response is r.resp
DispatchOutcome(r, t, fault) ==
  LET exc == IF fault # "none" THEN "DBError" ELSE NoExc
      committed == fault \in {"none", "close"}
      through == exc = NoExc \/ DbLogHandler(exc)
  IN [stage |-> IF through THEN "returned" ELSE "raised",
      committed |-> committed,
      exc |-> exc,
      row |-> LogRow(r, t),
      handlerResp |-> r.resp,
      clientResp |-> IF through THEN r.resp
                     ELSE [status_code |-> 500, media_type |-> "error"],
      fault |-> fault,
      ua |-> HeaderGet(r.ua),
      fmt |-> r.fmt,
      accept |-> r.accept]

\* line 115-118: a request arrives; dispatch reads the clock and awaits
\* call_next
Arrive(UAs, Fmts, Accepts, Clients) ==
  /\ life = "serving"
  /\ LoopFree
  /\ req.stage = "none"
  /\ nreq < MaxRequests
  /\ \E ua \in UAs, fmt \in Fmts, accept \in Accepts, client \in Clients :
       req' = [stage |-> "downstream", start_time |-> now, ua |-> ua,
               fmt |-> fmt, accept |-> accept, client |-> client,
               method |-> "GET", path |-> "/octocat/Hello-World",
               resp |-> [status_code |-> 0, media_type |-> "none"]]
  /\ nreq' = nreq + 1
  /\ served' = NoServed
  /\ UNCHANGED <<now, fsVars, sweepVars, life, api_logs, obsSweep>>

\* call_next returns the response of the route
RouteResponds ==
  /\ LoopFree
  /\ req.stage = "downstream"
  /\ req' = [req EXCEPT !.stage = "responded", !.resp = RouteResponse(req)]
  /\ UNCHANGED <<now, fsVars, sweepVars, life, api_logs, nreq, obsSweep, served>>

\* call_next raises: dispatch has no handler around it
RouteRaises ==
  /\ LoopFree
  /\ req.stage = "downstream"
  /\ req' = NoReq
  /\ served' = [stage |-> "downstream_raised"]
  /\ UNCHANGED <<now, fsVars, sweepVars, life, api_logs, nreq, obsSweep>>

\* lines 121-148: the row is written and the response returned
DispatchLog ==
  /\ LoopFree
  /\ req.stage = "responded"
  /\ \E fault \in DbFaults :
       LET o == DispatchOutcome(req, now, fault)
       IN /\ api_logs' = IF o.committed THEN Append(api_logs, o.row) ELSE api_logs
          /\ served' = o
  /\ req' = NoReq
  /\ UNCHANGED <<now, fsVars, sweepVars, life, nreq, obsSweep>>


(***************************************************************************)
(* The requests the model sends.                                           *)
(***************************************************************************)
UpperChar(c) ==
  IF \E i \in 1..26 : LowerChars[i] = c
  THEN UpperChars[CHOOSE i \in 1..26 : LowerChars[i] = c]
  ELSE c

\* a browser token as a client may spell it
Cased(tok, how) ==
  [i \in 1..Len(tok) |->
     IF how = "upper" \/ (how = "title" /\ i = 1) THEN UpperChar(tok[i]) ELSE tok[i]]

CurlUA == <<"c","u","r","l","/","7",".","6","8",".","0">>
WgetUA == <<"w","g","e","t">>
NearMissUA == <<"c","h","r","o","m">>

TokenUAs ==
  {w[1] \o Cased(browser_identifiers[n], how) \o w[2] :
     n \in 1..Len(browser_identifiers),
     how \in {"lower", "upper", "title"},
     w \in {<<<<>>, <<>>>>, <<<<"x", "/">>, <<"/", "5">>>>}}

AllUAs ==
  {[has |-> FALSE, val |-> <<>>]}
    \cup {[has |-> TRUE, val |-> v] : v \in TokenUAs \cup {CurlUA, WgetUA, NearMissUA}}

CoreUAs == {[has |-> TRUE, val |-> CurlUA]}

Formats == {"none", "json", "text", "xml"}
Accepts == {"none", "application/json", "text/plain"}
Clients == {"203.0.113.7", "None"}

\* a request of a command-line client arrives
RequestArrive == Arrive(CoreUAs, {"none"}, {"none"}, {"203.0.113.7"})

\* a request of a command-line client or a browser arrives
RequestArriveLogged ==
  Arrive({[has |-> TRUE, val |-> v] : v \in {CurlUA, Cased(browser_identifiers[1], "title")}},
         {"none", "json"}, {"none"}, Clients)

\* a request of any client arrives
RequestArriveAny == Arrive(AllUAs, Formats, Accepts, {"203.0.113.7"})

(***************************************************************************)
(* lifespan (lines 150-177) and init_db (lines 67-92).                    *)
(***************************************************************************)
\* lines 166-171: init_db(), which creates the table or reports that it could
\* not (a table that is missing shows as a failing insert); create_task; yield
Startup ==
  /\ life = "init"
  /\ task' = "pending"
  /\ life' = "serving"
  /\ UNCHANGED <<now, fsVars, mustCancel, current_time, todo, httpVars,
                 obsSweep, served>>

\* lines 173-175: task.cancel(), then await task
Shutdown ==
  /\ life = "serving"
  /\ LoopFree
  /\ mustCancel' = (task \notin {"cancelled", "failed"})
  /\ life' = "awaiting"
  /\ UNCHANGED <<now, fsVars, task, current_time, todo, httpVars, obsSweep,
                 served>>

\* lines 175-177: the task is done and "await task" raises what ended it
ShutdownComplete ==
  /\ life = "awaiting"
  /\ task \in {"cancelled", "failed"}
  /\ LET exc == IF task = "cancelled" THEN "CancelledError" ELSE "OSError"
     IN life' = IF LifespanHandler(exc) THEN "done" ELSE "raised"
  /\ UNCHANGED <<now, fsVars, sweepVars, httpVars, obsSweep, served>>

(***************************************************************************)
(* The environment: the clock, and the ingestion of a request, which       *)
(* creates a folder under TMP_BASE_PATH.                                   *)
(***************************************************************************)
Tick ==
  /\ now < MaxTime
  /\ now' = now + 1
  /\ UNCHANGED <<fsVars, sweepVars, life, httpVars, obsSweep, served>>

Ingestion(L) ==
  /\ life = "serving"
  /\ LoopFree
  /\ \E f \in DOMAIN L : \E l \in L[f] :
       /\ ~dirs[f].present
       /\ dirs' = [dirs EXCEPT ![f] = [present |-> TRUE, ctime |-> now, files |-> l]]
  /\ baseExists' = TRUE
  /\ UNCHANGED <<now, history, sweepVars, life, httpVars, obsSweep, served>>

\* the ingestion of some repository
Ingest == Ingestion(Layouts)

\* the ingestion of acme/widgets into folder f1
IngestAcme == Ingestion([f \in {"f1"} |-> {<<AcmeWidgetsTxt, AcmeWidgetsDir>>}])

(***************************************************************************)
(* Specifications.                                                         *)
(***************************************************************************)
Init ==
  /\ now = 0
  /\ baseExists \in BOOLEAN
  /\ dirs = [f \in Folders |-> Absent]
  /\ history = <<>>
  /\ task = "none"
  /\ mustCancel = FALSE
  /\ current_time = 0
  /\ todo = <<>>
  /\ life = "init"
  /\ api_logs = <<>>
  /\ req = NoReq
  /\ nreq = 0
  /\ scan = NullScan
  /\ last = NullLast
  /\ pendingRetry = {}
  /\ served = NoServed

Next ==
  \/ ScanStep
  \/ Startup
  \/ Tick
  \/ Ingest

\* the scans of the sweeper over the folders ingestion creates, while the
\* process serves (a cancellation reaches the task in its sleeps alone)
Spec == Init /\ [][Next]_vars

NextLife ==
  \/ SweeperStep
  \/ Startup
  \/ Shutdown
  \/ ShutdownComplete
  \/ Tick
  \/ IngestAcme

\* the sweeper from startup to shutdown
SpecLife == Init /\ [][NextLife]_vars

NextLoop ==
  \/ SweeperStep
  \/ Startup
  \/ Shutdown
  \/ ShutdownComplete
  \/ Tick
  \/ IngestAcme
  \/ RequestArrive
  \/ RouteResponds
  \/ RouteRaises
  \/ DispatchLog

\* the event loop shared by the sweeper and the requests in flight
SpecLoop == Init /\ [][NextLoop]_vars

\* the event loop runs a coroutine that is ready, timers fire, and the
\* process is shut down
FairLife ==
  /\ SpecLife
  /\ WF_vars(SweeperStep)
  /\ WF_vars(ShutdownComplete)

NextHttp ==
  \/ Startup
  \/ Tick
  \/ RequestArriveLogged
  \/ RouteResponds
  \/ RouteRaises
  \/ DispatchLog

\* the request path alone, with the clock running
SpecHttp == Init /\ [][NextHttp]_vars

NextFormat ==
  \/ Startup
  \/ RequestArriveAny
  \/ RouteResponds
  \/ RouteRaises
  \/ DispatchLog

\* the request path alone, over every request of the model
SpecFormat == Init /\ [][NextFormat]_vars


(***************************************************************************)
(* Notions the properties are stated with.                                 *)
(***************************************************************************)
Range(q) == {q[i] : i \in 1..Len(q)}

AcmeWidgetsLine == <<"a","c","m","e","/","w","i","d","g","e","t","s">>

\* this step is the call of _process_folder on the folder the scan is at
IsProcessStep ==
  /\ task = "iter"
  /\ todo # <<>>
  /\ last' # last
  /\ last'.folder = Head(todo)

\* the call met no filesystem fault
FaultFree(l) == l.exc1 # "OSError" /\ ~l.rmFailed

\* name ends with the four characters .txt, after at least one other
EndsWithTxt(name) ==
  Len(name) > 4 /\ SubSeq(name, Len(name) - 3, Len(name)) = <<".","t","x","t">>

\* the listing has no .txt file, or its first .txt file has no "-" before
\* the extension
NoUsableMarker(files) ==
  \/ \A i \in 1..Len(files) : ~EndsWithTxt(files[i])
  \/ \E i \in 1..Len(files) :
       /\ EndsWithTxt(files[i])
       /\ \A j \in 1..(i - 1) : ~EndsWithTxt(files[j])
       /\ \A c \in 1..(Len(files[i]) - 4) : files[i][c] # "-"

\* this step is dispatch finishing a request
IsDispatchStep == req.stage = "responded" /\ req'.stage = "none"

ClaimedBrowserTokens ==
  {<<"m","o","z","i","l","l","a">>,
   <<"c","h","r","o","m","e">>,
   <<"s","a","f","a","r","i">>,
   <<"e","d","g","e">>,
   <<"f","i","r","e","f","o","x">>,
   <<"w","e","b","k","i","t">>,
   <<"o","p","e","r","a">>}

SameLetter(a, b) ==
  a = b \/ \E i \in 1..26 : {a, b} = {LowerChars[i], UpperChars[i]}

\* s contains tok, letter case put aside
ContainsCI(s, tok) ==
  \E i \in 1..(Len(s) - Len(tok) + 1) :
    \A j \in 1..Len(tok) : SameLetter(s[i + j - 1], tok[j])

HasBrowserToken(ua) == \E tok \in ClaimedBrowserTokens : ContainsCI(ua, tok)

(***************************************************************************)
(* Properties.                                                             *)
(***************************************************************************)
\* C1: in a scan, a folder whose age (current_time - st_ctime) exceeds
\* DELETE_REPO_AFTER and whose marker file is acme-widgets.txt gets, when the
\* filesystem raises no error, exactly the line acme/widgets appended to
\* history.txt and is removed; a folder whose age does not exceed
\* DELETE_REPO_AFTER is left as it is by every step of the scan, and the step
\* that visits it writes no history line.
C1_OldFolderLoggedAndRemovedYoungUntouched ==
  [][ /\ \A f \in Folders :
           ( /\ IsProcessStep
             /\ f = Head(todo)
             /\ current_time - dirs[f].ctime > DELETE_REPO_AFTER
             /\ dirs[f].files = <<AcmeWidgetsTxt, AcmeWidgetsDir>>
             /\ FaultFree(last') )
           => ( /\ history' = Append(history, AcmeWidgetsLine)
                /\ ~dirs'[f].present )
      /\ \A f \in Folders :
           ( /\ task = "iter"
             /\ dirs[f].present
             /\ current_time - dirs[f].ctime <= DELETE_REPO_AFTER )
           => ( /\ dirs'[f] = dirs[f]
                /\ (todo # <<>> /\ f = Head(todo)) => history' = history )
    ]_vars

\* C1 witness: a scan has skipped a young folder and has logged acme/widgets
\* for an old one, which is gone
C1_Witness ==
  /\ task = "iter"
  /\ scan.skipped # {}
  /\ last.folder # "none"
  /\ last.files = <<AcmeWidgetsTxt, AcmeWidgetsDir>>
  /\ last.wrote
  /\ history = <<AcmeWidgetsLine>>
  /\ ~dirs[last.folder].present

\* C2: _process_folder on a folder with no .txt file, or whose first .txt
\* file has no "-" in its stem, writes no history line, lets no exception
\* out, attempts the deletion, and the folder is gone unless rmtree failed.
C2_NoMarkerDeletedWithoutHistory ==
  [][ \A f \in Folders :
        ( /\ IsProcessStep
          /\ f = Head(todo)
          /\ NoUsableMarker(dirs[f].files) )
        => ( /\ history' = history
             /\ last'.escaped = NoExc
             /\ task' = "iter"
             /\ last'.rmAttempted
             /\ ~last'.rmFailed => ~dirs'[f].present )
    ]_vars

\* C2 witness: a folder with no .txt file went through the IndexError of
\* txt_files[0] and is gone, with history.txt empty
C2_Witness ==
  /\ last.folder # "none"
  /\ last.files = <<AcmeWidgetsDir>>
  /\ last.exc1 = "IndexError"
  /\ ~last.rmFailed
  /\ ~dirs[last.folder].present
  /\ history = <<>>

\* C3: every call of _process_folder attempts the deletion, whatever
\* happened while listing, parsing or writing history.txt.
C3_DeletionAlwaysAttempted ==
  last.folder # "none" => last.rmAttempted

\* C3 witness: the listing or the history write raised OSError and the
\* folder was deleted all the same
C3_Witness ==
  /\ last.folder # "none"
  /\ last.exc1 = "OSError"
  /\ last.rmAttempted
  /\ ~last.rmFailed
  /\ ~dirs[last.folder].present

\* C4: a failure inside _process_folder leaves the scan running: no
\* exception reaches the loop, and every child listed by the scan is
\* attempted, skipped as too young, or still to be visited.
C4_FolderFailureDoesNotAbortScan ==
  /\ (last.folder # "none" /\ (last.exc1 # NoExc \/ last.rmFailed))
       => (task = "iter" /\ last.escaped = NoExc /\ last.folder \in scan.attempted)
  /\ task = "iter" => scan.listed = scan.attempted \cup scan.skipped \cup Range(todo)

\* C4 witness: the scan is through both folders; the deletion of the first
\* failed in this scan and the second was deleted
C4_Witness ==
  /\ task = "iter"
  /\ todo = <<>>
  /\ scan.attempted = Folders
  /\ last.folder # "none"
  /\ ~last.rmFailed
  /\ \E f \in pendingRetry : f # last.folder /\ f \notin scan.retry

\* C5: no error ends the sweeper: an exception raised in a scan is caught at
\* the loop, the task sleeps (line 213), and unless the task is cancelled
\* the loop body starts again.
C5_LoopSurvivesErrors ==
  /\ [](task # "failed")
  /\ []((scan.status = "aborted" /\ life = "serving") => task = "sleep213")
  /\ (scan.status = "aborted") ~> (task = "top" \/ life # "serving")

\* C5 witness: a scan was aborted by an exception and the task sleeps
C5_Witness == scan.status = "aborted" /\ task = "sleep213" /\ life = "serving"

\* C6: once lifespan has cancelled the task and awaits it, no further scan
\* starts, the task ends cancelled, and lifespan ends without raising.
C6_ShutdownCancelsSweeper ==
  /\ [](life \in {"awaiting", "done"} => ~SweeperRunning)
  /\ [](life # "raised")
  /\ [](life = "done" => task = "cancelled")
  /\ (life = "awaiting") ~> (life = "done")

\* C6 witness: the task was cancelled in the sleep of line 198, inside the
\* try block, and lifespan is done
C6_Witness == life = "done" /\ task = "cancelled" /\ scan.status = "nobase"

\* the next step of a request in flight
RequestStep == RouteResponds \/ RouteRaises \/ DispatchLog

\* C7: while a scan that has processed a folder is not over, a request in
\* flight can take its next step.
C7_RequestNotStalledByScan ==
  (req.stage \in {"downstream", "responded"} /\ task = "iter" /\ scan.attempted # {})
    => ENABLED RequestStep

\* C8: a folder whose deletion failed is processed again by the next scan
\* that runs to its end.
C8_FailedDeletionRetriedNextScan ==
  (task = "iter" /\ todo = <<>>) => scan.retry \subseteq scan.attempted

\* C9: dispatch returns the response of the downstream handler as it is and
\* lets no exception out; a failing connection, insert or commit writes no
\* row; a write without fault appends exactly the row of the request; rows
\* already written are never changed or removed.
C9_DispatchPassThrough ==
  [][ /\ IsDispatchStep
        => ( /\ served'.stage = "returned"
             /\ served'.clientResp = req.resp
             /\ served'.fault \in {"connect", "execute", "commit"}
                  => api_logs' = api_logs
             /\ served'.fault = "none"
                  => api_logs' = Append(api_logs,
                       [level |-> "INFO",
                        message |-> <<req.client, req.method, req.path,
                                      req.resp.status_code>>,
                        method |-> req.method,
                        path |-> req.path,
                        status_code |-> req.resp.status_code,
                        ip_address |-> req.client,
                        processing_time |-> now - req.start_time]) )
      /\ Len(api_logs') \in {Len(api_logs), Len(api_logs) + 1}
      /\ SubSeq(api_logs', 1, Len(api_logs)) = api_logs
    ]_vars

\* C9 witness: after a request that was logged, a second one got its
\* response although the write failed, and no row was added
C9_Witness ==
  /\ served.stage = "returned"
  /\ served.fault = "connect"
  /\ served.clientResp = served.handlerResp
  /\ nreq = 2
  /\ Len(api_logs) = 1

\* C10: a request whose User-Agent contains a browser token in any letter
\* case gets the HTML page, whatever its format parameter and Accept header.
C10_BrowserGetsHtml ==
  (served.stage = "returned" /\ HasBrowserToken(served.ua))
    => ( /\ served.handlerResp.media_type = "text/html"
         /\ served.clientResp.media_type = "text/html" )

\* C10 witness: format=json and Accept: application/json with the
\* User-Agent x/CHROME/5 were answered with the HTML page
C10_Witness ==
  /\ served.stage = "returned"
  /\ served.ua = <<"x","/","C","H","R","O","M","E","/","5">>
  /\ served.fmt = "json"
  /\ served.accept = "application/json"
  /\ served.clientResp.media_type = "text/html"

====
